---- MODULE Spec2Model ----
(***************************************************************************)
(* Model of `resolve` and `HaplotypeResolver` of projects/tgbs.py: the     *)
(* marker selection over the genotype matrix, the per-sample haplotype     *)
(* extraction from read pileups, the population counter and the pairwise   *)
(* co-occurrence report.                                                   *)
(*                                                                         *)
(* The genotype matrix is read line by line; the content of each line is   *)
(* drawn when the line is read.  The pileup of one BAM file over one       *)
(* contig is drawn when that BAM file is queried for that contig.          *)
(***************************************************************************)
EXTENDS Integers, Sequences, FiniteSets

VARIABLES
    pc,             \* position of resolve(): header, scan, group, samples, done, error
    err,            \* the exception that ended the run ("" while running)
    unread,         \* lines of matrixfile not read yet
    row,            \* `row`: the line read last
    branch,         \* the path the last loop iteration took
    ngenotypes,     \* `ngenotypes`
    nmissing,       \* `nmissing`
    data,           \* `data`
    rest,           \* the part of `data` that groupby has not yielded yet
    seqid,          \* `seqid` of the group in progress
    d,              \* `d`: the markers of the group in progress
    nmarkers,       \* `nmarkers`
    pileup,         \* content of the BAM queried last (samfile.pileup(seqid))
    reads,          \* `reads` of the sample processed last
    positions,      \* `positions` of the sample processed last
    readhaps,       \* per sample of the group, the list `haplotypes` before set()
    haplotype_set,  \* `haplotype_set`
    counter,        \* `hr.counter` of the resolver built last
    output,         \* the lines printed to fw
    flushed         \* how many lines of output have reached the sink

vars == <<pc, err, unread, row, branch, ngenotypes, nmissing, data, rest, seqid,
          d, nmarkers, pileup, reads, positions, readhaps, haplotype_set,
          counter, output, flushed>>

(***************************************************************************)
(* Bounds of the explored inputs.                                          *)
(***************************************************************************)
\* most lines of the matrix file after its first line
MaxRows == 2
\* sample columns named by the header line of the matrix file
NCols == 2
\* BAM files found in bamfolder
NumBams == 3

\* --missing and --het defaults, as fractions
MissingNum == 1
MissingDen == 2
HetNum == 1
HetDen == 2

\* contig names, in ascending string order
Contigs == <<"ctg1", "ctg2">>
Positions == {1, 2}
Reads == {"r1", "r2"}
\* genotype codes of the matrix: "0" missing, "3" heterozygous, "1" another call
Codes == {"0", "1", "3"}
\* the bases a read can show at a marker position
AllelesAt(p) == IF p = 1 THEN {"A", "G"} ELSE {"T", "C"}
AllBases == UNION {AllelesAt(p) : p \in Positions}
NoObs == "none"

(***************************************************************************)
(* Lines of the matrix file.  hash: the line starts with '#'.  kind: what  *)
(* the line is in the file (its header line, a comment, a data row).  The  *)
(* line splits into `lead` atoms followed by the atoms of geno.            *)
(***************************************************************************)
Line(h, k, l, s, p, n, g) ==
    [hash |-> h, kind |-> k, lead |-> l, seqid |-> s, pos |-> p, numeric |-> n, geno |-> g]

NoRow == Line(FALSE, "none", 0, "", 0, FALSE, <<>>)
HeaderLines == {Line(h, "header", 4, "", 0, FALSE, [i \in 1..NCols |-> "name"]) : h \in BOOLEAN}
CommentLine == Line(TRUE, "comment", 1, "", 0, FALSE, <<>>)
\* a data row cut short: fewer than four atoms
ShortRow == Line(FALSE, "row", 3, "ctg1", 1, TRUE, <<>>)
AllHet == [i \in 1..NCols |-> "3"]
AllMissing == [i \in 1..NCols |-> "0"]

GenosNear == UNION {[1..n -> Codes] : n \in {m \in (NCols - 1)..(NCols + 1) : m >= 0}}

\* every row over both contigs, with one column too few, the right number, one too many
WideLines ==
    HeaderLines \cup {CommentLine, ShortRow}
    \cup {Line(FALSE, "row", 4, Contigs[c], p, n, g) :
            c \in 1..Len(Contigs), p \in Positions, n \in BOOLEAN, g \in GenosNear}

\* rows of one contig: heterozygous everywhere or missing everywhere
CoreLines ==
    HeaderLines \cup {CommentLine, ShortRow, Line(FALSE, "row", 4, "ctg1", 1, FALSE, AllHet)}
    \cup {Line(FALSE, "row", 4, "ctg1", p, TRUE, g) : p \in Positions, g \in {AllHet, AllMissing}}

NAtoms(line) == line.lead + Len(line.geno)

\* Counter(genotypes).get(code, 0)
CountCode(geno, code) == Cardinality({i \in 1..Len(geno) : geno[i] = code})

\* int(round(num/den)): Python 2 rounds halves away from zero
RoundHalfAway(num, den) ==
    IF num >= 0 THEN (2 * num + den) \div (2 * den)
    ELSE -((2 * (-num) + den) \div (2 * den))

Nmissing(n) == RoundHalfAway(MissingNum * n, MissingDen)

\* c0 >= nmissing: the row is skipped for missing data
TooManyMissing(c0, nmiss) == c0 >= nmiss

\* hetratio <= opts.het, with hetratio = c3 * 1. / (ngenotypes - c0)
\* (the divisor is positive whenever the test is reached: c0 < nmissing <= ngenotypes)
HetTooLow(c3, c0, n) ==
    IF n - c0 > 0 THEN c3 * HetDen <= HetNum * (n - c0)
    ELSE c3 * HetDen >= HetNum * (n - c0)

\* the tuple appended to data; ref, alt, c and hetratio are not read again
Marker(line) == [seqid |-> line.seqid, pos |-> line.pos]

ContigRank(s) == CHOOSE i \in 1..Len(Contigs) : Contigs[i] = s

\* tuple order of data.sort(): by seqid, then by pos
MarkerLess(m1, m2) ==
    \/ ContigRank(m1.seqid) < ContigRank(m2.seqid)
    \/ ContigRank(m1.seqid) = ContigRank(m2.seqid) /\ m1.pos < m2.pos

RECURSIVE InsertSorted(_, _)
InsertSorted(s, m) ==
    IF s = <<>> THEN <<m>>
    ELSE IF MarkerLess(m, Head(s)) THEN <<m>> \o s
    ELSE <<Head(s)>> \o InsertSorted(Tail(s), m)

RECURSIVE Sorted(_)
Sorted(s) == IF s = <<>> THEN <<>> ELSE InsertSorted(Sorted(Tail(s)), Head(s))

\* groupby(data, lambda x: x[0]): the longest run at the front with one seqid
RECURSIVE RunLength(_, _)
RunLength(s, key) ==
    IF s = <<>> \/ Head(s).seqid # key THEN 0 ELSE 1 + RunLength(Tail(s), key)

(***************************************************************************)
(* Pileups.  obs[p][r] is the base read r shows in the pileup column of    *)
(* position p (NoObs: r is not in that column).  fail: the contig is not   *)
(* in the BAM file, and samfile.pileup(seqid) raises.                      *)
(***************************************************************************)
NoPileup == [fail |-> FALSE, obs |-> [p \in Positions |-> [r \in Reads |-> NoObs]]]
FailedPileup == [fail |-> TRUE, obs |-> [p \in Positions |-> [r \in Reads |-> NoObs]]]
\* the base of the reference at a marker position
RefBase(p) == IF p = 1 THEN "A" ELSE "T"
\* a read covers no position, every position, or the first position only, where it
\* then shows the reference base
FirstPosition == CHOOSE p \in Positions : \A q \in Positions : p <= q
Observations ==
    {o \in [Positions -> [Reads -> AllBases \cup {NoObs}]] :
        /\ \A p \in Positions, r \in Reads : o[p][r] \in AllelesAt(p) \cup {NoObs}
        /\ \A r \in Reads :
              LET cov == {p \in Positions : o[p][r] # NoObs}
              IN  \/ cov = {}
                  \/ cov = Positions
                  \/ cov = {FirstPosition} /\ o[FirstPosition][r] = RefBase(FirstPosition)}
AllPileups == {FailedPileup} \cup {[fail |-> FALSE, obs |-> o] : o \in Observations}
\* the other base a read can show at a marker position
AltBase(p) == CHOOSE b \in AllelesAt(p) : b # RefBase(p)
\* no read, two reads that differ at every position, one read over every position,
\* one read over the first position only
FewPileups ==
    {FailedPileup, NoPileup,
     [fail |-> FALSE, obs |-> [p \in Positions |-> [r \in Reads |->
         IF r = "r1" THEN RefBase(p) ELSE AltBase(p)]]],
     [fail |-> FALSE, obs |-> [p \in Positions |-> [r \in Reads |->
         IF r = "r1" THEN RefBase(p) ELSE NoObs]]],
     [fail |-> FALSE, obs |-> [p \in Positions |-> [r \in Reads |->
         IF r = "r1" /\ p = FirstPosition THEN RefBase(p) ELSE NoObs]]]}

\* reads[rname] after the loop over d: one (pos, rbase) per marker whose column holds the read
RECURSIVE ReadList(_, _, _)
ReadList(markers, obs, r) ==
    IF markers = <<>> THEN <<>>
    ELSE LET p == Head(markers).pos
         IN  (IF obs[p][r] # NoObs THEN <<(<<p, obs[p][r]>>)>> ELSE <<>>)
             \o ReadList(Tail(markers), obs, r)

BuildReads(markers, obs) == [r \in Reads |-> ReadList(markers, obs, r)]

\* positions after the loop over d
BuildPositions(markers) == [i \in 1..Len(markers) |-> markers[i].pos]

\* positions.index(p): the first slot that holds p
IndexOf(poss, p) == CHOOSE i \in 1..Len(poss) : poss[i] = p /\ \A j \in 1..(i - 1) : poss[j] # p

\* hap after `for p, rbase in read: hap[positions.index(p)] = rbase`
RECURSIVE FillHap(_, _, _)
FillHap(hap, read, poss) ==
    IF read = <<>> THEN hap
    ELSE FillHap([hap EXCEPT ![IndexOf(poss, Head(read)[1])] = Head(read)[2]], Tail(read), poss)

HapOf(read, poss, n) == FillHap([i \in 1..n |-> "-"], read, poss)

\* "-" in hap
Incomplete(hap) == \E i \in 1..Len(hap) : hap[i] = "-"

\* reads.values(): a key exists once something was appended under it
ReadKeys(rds) == {r \in Reads : rds[r] # <<>>}

\* the list `haplotypes` before set(), as hap -> number of reads that gave it
HapList(rds, poss, n) ==
    LET kept == {r \in ReadKeys(rds) : ~Incomplete(HapOf(rds[r], poss, n))}
        haps == {HapOf(rds[r], poss, n) : r \in kept}
    IN  [h \in haps |-> Cardinality({r \in kept : HapOf(rds[r], poss, n) = h})]

\* a mutation of SetOf: the list is kept as it is
SetOfKeepsDuplicates(haps) == haps
\* set(haplotypes): every element once
SetOf(haps) == [h \in DOMAIN haps |-> 1]

(***************************************************************************)
(* HaplotypeResolver                                                       *)
(***************************************************************************)
EmptyCounter == [h \in {} |-> 0]

\* self.counter.update(Counter(haplotypes))
CounterUpdate(cnt, haps) ==
    [h \in DOMAIN cnt \cup DOMAIN haps |->
        (IF h \in DOMAIN cnt THEN cnt[h] ELSE 0) + (IF h \in DOMAIN haps THEN haps[h] ELSE 0)]

\* __init__: the counter after the loop over haplotype_set
RECURSIVE CounterOf(_)
CounterOf(hs) ==
    IF hs = <<>> THEN EmptyCounter
    ELSE CounterUpdate(CounterOf(SubSeq(hs, 1, Len(hs) - 1)), hs[Len(hs)])

\* self.counter.items(): the keys in the order the dictionary iterates them, an
\* order fixed by the keys and not otherwise specified
RECURSIVE KeyOrder(_)
KeyOrder(S) ==
    IF S = {} THEN <<>>
    ELSE LET x == CHOOSE y \in S : TRUE IN <<x>> \o KeyOrder(S \ {x})

Items(cnt) == LET ks == KeyOrder(DOMAIN cnt) IN [i \in 1..Len(ks) |-> <<ks[i], cnt[ks[i]]>>]

\* a mutation of Combinations2: every ordered pair of two different items
Permutations2(n) ==
    IF n < 2 THEN <<>>
    ELSE [k \in 1..(n * (n - 1)) |->
            LET i == ((k - 1) \div (n - 1)) + 1
                j == ((k - 1) % (n - 1)) + 1
            IN  <<i, IF j >= i THEN j + 1 ELSE j>>]
\* itertools.combinations(range(n), 2): the index pairs i < j in lexicographic order
RECURSIVE PairsFrom(_, _, _)
PairsFrom(i, j, n) ==
    IF i >= n THEN <<>>
    ELSE IF j > n THEN PairsFrom(i + 1, i + 2, n)
    ELSE <<(<<i, j>>)>> \o PairsFrom(i, j + 1, n)

Combinations2(n) == PairsFrom(1, 2, n)

\* a mutation of CoOccur: `or` in place of `and`
CoOccurEither(a, b, hs) ==
    Cardinality({s \in 1..Len(hs) : a \in DOMAIN hs[s] \/ b \in DOMAIN hs[s]})
\* a mutation of CoOccur: the test on b is dropped
CoOccurFirstOnly(a, b, hs) ==
    Cardinality({s \in 1..Len(hs) : a \in DOMAIN hs[s]})
\* abi: the samples whose haplotypes hold both a and b
CoOccur(a, b, hs) ==
    Cardinality({s \in 1..Len(hs) : a \in DOMAIN hs[s] /\ b \in DOMAIN hs[s]})

\* the lines solve() prints
SolveLines(cnt, hs) ==
    LET items == Items(cnt)
        pairs == Combinations2(Len(items))
    IN  [k \in 1..Len(pairs) |->
            LET a == items[pairs[k][1]][1]
                b == items[pairs[k][2]][1]
            IN  [kind |-> "pair", a |-> a, b |-> b, abi |-> CoOccur(a, b, hs)]]

\* the line `print >> fw, seqid, hr` prints: seqid and str(self.counter)
SummaryLine(s, cnt) == [kind |-> "summary", seqid |-> s, counter |-> cnt]

(***************************************************************************)
(* resolve()                                                               *)
(***************************************************************************)
Init ==
    /\ pc = "header"
    /\ err = ""
    /\ unread \in 1..(1 + MaxRows)
    /\ row = NoRow
    /\ branch = "start"
    /\ ngenotypes = 0
    /\ nmissing = 0
    /\ data = <<>>
    /\ rest = <<>>
    /\ seqid = ""
    /\ d = <<>>
    /\ nmarkers = 0
    /\ pileup = NoPileup
    /\ reads = [r \in Reads |-> <<>>]
    /\ positions = <<>>
    /\ readhaps = <<>>
    /\ haplotype_set = <<>>
    /\ counter = EmptyCounter
    /\ output = <<>>
    /\ flushed = 0

\* the first line of the file is its header line, with or without '#'; the lines after
\* it are comments and data rows
IsNextLine(line) ==
    IF branch = "start" THEN line.kind = "header" ELSE line.kind \in {"comment", "row"}

group_vars == <<rest, seqid, d, nmarkers>>
sample_vars == <<pileup, reads, positions, readhaps, haplotype_set>>
report_vars == <<counter, output, flushed>>

\* the run ends with an exception; the interpreter closes fw as it exits
Raise(e) ==
    /\ pc' = "error"
    /\ err' = e
    /\ flushed' = Len(output)

\* lines 83-85: a line that starts with '#' is passed over
SkipHeaderComment(lines) ==
    /\ pc = "header"
    /\ unread > 0
    /\ \E line \in lines :
        /\ IsNextLine(line)
        /\ line.hash
        /\ row' = line
    /\ unread' = unread - 1
    /\ branch' = "comment"
    /\ UNCHANGED <<pc, err, ngenotypes, nmissing, data>>
    /\ UNCHANGED <<group_vars, sample_vars, report_vars>>

\* lines 83-88: the first line that does not start with '#' is split as the header
ReadHeader(lines) ==
    /\ pc = "header"
    /\ unread > 0
    /\ \E line \in lines :
        /\ IsNextLine(line)
        /\ ~line.hash
        /\ row' = line
        /\ ngenotypes' = NAtoms(line) - 4
        /\ nmissing' = Nmissing(NAtoms(line) - 4)
    /\ unread' = unread - 1
    /\ branch' = "header"
    /\ pc' = "scan"
    /\ UNCHANGED <<err, data>>
    /\ UNCHANGED <<group_vars, sample_vars, report_vars>>

\* lines 83-116 when every line of the file starts with '#': the loop ends on the
\* last line, which is split as the header, and no row is left for the second loop
HeaderAtEndOfFile ==
    /\ pc = "header"
    /\ unread = 0
    /\ ngenotypes' = NAtoms(row) - 4
    /\ nmissing' = Nmissing(NAtoms(row) - 4)
    /\ branch' = "eof"
    /\ data' = <<>>
    /\ rest' = <<>>
    /\ pc' = "group"
    /\ UNCHANGED <<err, unread, row, seqid, d, nmarkers>>
    /\ UNCHANGED <<sample_vars, report_vars>>

\* lines 97-112: one iteration of the loop over the data rows
ReadRow(lines) ==
    /\ pc = "scan"
    /\ unread > 0
    /\ \E line \in lines :
        /\ IsNextLine(line)
        /\ row' = line
        /\ LET c0 == CountCode(line.geno, "0")
               c3 == CountCode(line.geno, "3")
           IN  IF line.hash
                 THEN /\ branch' = "comment"
                      /\ UNCHANGED <<pc, err, data, flushed>>
               ELSE IF line.lead < 4
                 THEN /\ branch' = "error"
                      /\ Raise("ValueError: need more than 3 values to unpack")
                      /\ UNCHANGED data
               ELSE IF TooManyMissing(c0, nmissing)
                 THEN /\ branch' = "missing"
                      /\ UNCHANGED <<pc, err, data, flushed>>
               ELSE IF HetTooLow(c3, c0, ngenotypes)
                 THEN /\ branch' = "lowhet"
                      /\ UNCHANGED <<pc, err, data, flushed>>
               ELSE IF ~line.numeric
                 THEN /\ branch' = "error"
                      /\ Raise("ValueError: invalid literal for int()")
                      /\ UNCHANGED data
               ELSE /\ branch' = "append"
                    /\ data' = Append(data, Marker(line))
                    /\ UNCHANGED <<pc, err, flushed>>
    /\ unread' = unread - 1
    /\ UNCHANGED <<ngenotypes, nmissing, counter, output>>
    /\ UNCHANGED <<group_vars, sample_vars>>

\* lines 114-119: the file is exhausted; data is sorted
EndOfFile ==
    /\ pc = "scan"
    /\ unread = 0
    /\ data' = Sorted(data)
    /\ rest' = Sorted(data)
    /\ row' = NoRow
    /\ branch' = "eof"
    /\ pc' = "group"
    /\ UNCHANGED <<err, unread, ngenotypes, nmissing, seqid, d, nmarkers>>
    /\ UNCHANGED <<sample_vars, report_vars>>

\* lines 120-124: groupby yields the next contig and its markers
BeginRegion ==
    /\ pc = "group"
    /\ rest # <<>>
    /\ LET n == RunLength(rest, Head(rest).seqid)
       IN  /\ seqid' = Head(rest).seqid
           /\ d' = SubSeq(rest, 1, n)
           /\ nmarkers' = n
           /\ rest' = SubSeq(rest, n + 1, Len(rest))
    /\ haplotype_set' = <<>>
    /\ readhaps' = <<>>
    /\ pc' = "samples"
    /\ UNCHANGED <<err, unread, row, branch, ngenotypes, nmissing, data>>
    /\ UNCHANGED <<pileup, reads, positions, report_vars>>

\* lines 125-147: one BAM file of the loop over samfiles
ExtractSample(pileups) ==
    /\ pc = "samples"
    /\ Len(haplotype_set) < NumBams
    /\ \E pu \in pileups :
        /\ pileup' = pu
        /\ IF pu.fail
             THEN /\ Raise("ValueError: invalid contig")
                  /\ UNCHANGED <<reads, positions, readhaps, haplotype_set>>
           ELSE LET rds == BuildReads(d, pu.obs)
                    poss == BuildPositions(d)
                    haps == HapList(rds, poss, nmarkers)
                IN  /\ reads' = rds
                    /\ positions' = poss
                    /\ readhaps' = Append(readhaps, haps)
                    /\ haplotype_set' = Append(haplotype_set, SetOf(haps))
                    /\ UNCHANGED <<pc, err, flushed>>
    /\ UNCHANGED <<unread, row, branch, ngenotypes, nmissing, data, counter, output>>
    /\ UNCHANGED group_vars

\* lines 148-150: the resolver is built, the summary line printed, solve() run;
\* solve() flushes fw after each line it prints.  The loop over samfiles is over:
\* its locals (the pileup, reads, positions) are not read again and are dropped.
Report ==
    /\ pc = "samples"
    /\ Len(haplotype_set) = NumBams
    /\ LET cnt == CounterOf(haplotype_set)
           lines == SolveLines(cnt, haplotype_set)
       IN  /\ counter' = cnt
           /\ output' = output \o <<SummaryLine(seqid, cnt)>> \o lines
           /\ flushed' = IF Len(lines) > 0 THEN Len(output) + 1 + Len(lines) ELSE flushed
    /\ pileup' = NoPileup
    /\ reads' = [r \in Reads |-> <<>>]
    /\ positions' = <<>>
    /\ pc' = "group"
    /\ UNCHANGED <<err, unread, row, branch, ngenotypes, nmissing, data>>
    /\ UNCHANGED <<group_vars, readhaps, haplotype_set>>

\* the loop over the groups is over; fw is closed as resolve returns
Finish ==
    /\ pc = "group"
    /\ rest = <<>>
    /\ pc' = "done"
    /\ flushed' = Len(output)
    /\ UNCHANGED <<err, unread, row, branch, ngenotypes, nmissing, data, counter, output>>
    /\ UNCHANGED <<group_vars, sample_vars>>

\* rows of one contig, every pileup of two reads that Coverages allows
Next ==
    \/ SkipHeaderComment(CoreLines)
    \/ ReadHeader(CoreLines)
    \/ HeaderAtEndOfFile
    \/ ReadRow(CoreLines)
    \/ EndOfFile
    \/ BeginRegion
    \/ ExtractSample(AllPileups)
    \/ Report
    \/ Finish

Spec == Init /\ [][Next]_vars

\* every row over two contigs, a few pileups
NextMatrix ==
    \/ SkipHeaderComment(WideLines)
    \/ ReadHeader(WideLines)
    \/ HeaderAtEndOfFile
    \/ ReadRow(WideLines)
    \/ EndOfFile
    \/ BeginRegion
    \/ ExtractSample(FewPileups)
    \/ Report
    \/ Finish

SpecMatrix == Init /\ [][NextMatrix]_vars

(***************************************************************************)
(* Properties                                                              *)
(***************************************************************************)
Last(s) == s[Len(s)]

\* the resolver of the group in progress has been built and its lines printed
Reported == pc \in {"group", "done"} /\ Len(readhaps) = NumBams

SummaryIndexes == {i \in 1..Len(output) : output[i].kind = "summary"}
LastSummaryIndex == CHOOSE i \in SummaryIndexes : \A j \in SummaryIndexes : j <= i
\* the places in output of the co-occurrence records of the group reported last
LastPairIndexes == {i \in 1..Len(output) : i > LastSummaryIndex}

\* the samples of the group among whose reads haplotype h was found
SamplesShowing(h) == {s \in 1..Len(readhaps) : h \in DOMAIN readhaps[s]}
SamplesShowingBoth(a, b) == SamplesShowing(a) \cap SamplesShowing(b)
Min(x, y) == IF x <= y THEN x ELSE y

\* a data row of a well-formed matrix: four leading atoms, a numeric position and
\* one genotype code per sample column of the header line
WellFormedRow(line) ==
    /\ line.kind = "row"
    /\ ~line.hash
    /\ line.lead = 4
    /\ line.numeric
    /\ Len(line.geno) = NCols

MissingCount(line) == Cardinality({i \in 1..Len(line.geno) : line.geno[i] = "0"})
HetCount(line) == Cardinality({i \in 1..Len(line.geno) : line.geno[i] = "3"})

\* missingCount < round(missingnessFraction * N) and hetCount / (N - missingCount) > threshold
Informative(line) ==
    /\ MissingCount(line) < RoundHalfAway(MissingNum * NCols, MissingDen)
    /\ NCols - MissingCount(line) > 0
    /\ HetCount(line) * HetDen > HetNum * (NCols - MissingCount(line))

\* C1: every data row of a well-formed matrix, whether or not the header line starts
\* with the comment marker, is selected as a marker exactly when fewer than
\* round(fraction * N) of its codes are '0' and more than the threshold share of
\* the others are '3'.
C1_SelectedIffInformative ==
    WellFormedRow(row) => (branch = "append" <=> Informative(row))

\* read r has an observation at the position of every marker of the group
CoversAllMarkers(r) == \A i \in 1..Len(d) : pileup.obs[d[i].pos][r] # NoObs
\* a haplotype string was kept for read r
Emitted(r) ==
    /\ r \in ReadKeys(reads)
    /\ ~Incomplete(HapOf(reads[r], positions, nmarkers))
    /\ HapOf(reads[r], positions, nmarkers) \in DOMAIN Last(readhaps)
SampleExtracted == pc = "samples" /\ Len(readhaps) >= 1 /\ ~pileup.fail

\* C2: a haplotype string is emitted for a read exactly when the read has an
\* observation at every marker position of the group, and the string then has one
\* base per marker, the base of marker i at index i.
C2_EmittedIffCoversAll ==
    SampleExtracted =>
        \A r \in Reads :
            /\ Emitted(r) <=> CoversAllMarkers(r)
            /\ Emitted(r) =>
                 LET hap == HapOf(reads[r], positions, nmarkers)
                 IN  /\ Len(hap) = Len(d)
                     /\ \A i \in 1..Len(d) : hap[i] = pileup.obs[d[i].pos][r]

\* C3: once all samples of a group are folded, the count of each haplotype is the
\* number of samples among whose reads it was found, however many reads carry it;
\* the summary line prints that counter.
C3_CountsAreSamples ==
    Reported =>
        /\ DOMAIN counter = UNION {DOMAIN readhaps[s] : s \in 1..Len(readhaps)}
        /\ \A h \in DOMAIN counter : counter[h] = Cardinality(SamplesShowing(h))
        /\ output[LastSummaryIndex].counter = counter

\* a sample with two reads of one haplotype has been folded, and another sample shows it too
C3_Witness ==
    /\ Reported
    /\ \E h \in DOMAIN counter :
        /\ counter[h] = 2
        /\ \E s \in 1..Len(readhaps) : h \in DOMAIN readhaps[s] /\ readhaps[s][h] = 2

\* C4: for every two distinct haplotypes of the counter, the record solve prints
\* for them carries the number of samples that show both.
C4_CoOccurrenceCount ==
    Reported =>
        /\ \A a \in DOMAIN counter : \A b \in DOMAIN counter \ {a} :
              \E i \in LastPairIndexes : {output[i].a, output[i].b} = {a, b}
        /\ \A i \in LastPairIndexes :
              output[i].abi = Cardinality(SamplesShowingBoth(output[i].a, output[i].b))

\* samples with haplotypes {AT, GC}, {AT}, {GC}: frequencies AT=2, GC=2, and the one
\* record of AT and GC carries 1
C4_Witness ==
    /\ Reported
    /\ nmarkers = 2
    /\ DOMAIN haplotype_set[1] = {<<"A", "T">>, <<"G", "C">>}
    /\ DOMAIN haplotype_set[2] = {<<"A", "T">>}
    /\ DOMAIN haplotype_set[3] = {<<"G", "C">>}
    /\ readhaps[3][<<"G", "C">>] = 2
    /\ counter[<<"A", "T">>] = 2
    /\ counter[<<"G", "C">>] = 2
    /\ Cardinality(LastPairIndexes) = 1
    /\ \A i \in LastPairIndexes :
          {output[i].a, output[i].b} = {<<"A", "T">>, <<"G", "C">>} /\ output[i].abi = 1

\* C5: no co-occurrence record carries more than the smaller of the population
\* counts of its two haplotypes.
C5_CoOccurrenceBounded ==
    Reported =>
        \A i \in LastPairIndexes :
            output[i].abi <= Min(counter[output[i].a], counter[output[i].b])

\* a record whose count is positive and below both frequencies
C5_Witness ==
    /\ Reported
    /\ \E i \in LastPairIndexes :
        /\ output[i].abi >= 1
        /\ output[i].abi < Min(counter[output[i].a], counter[output[i].b])

\* C6: with H haplotypes in the counter, solve prints H*(H-1)/2 records, one for
\* each unordered pair of distinct haplotypes: none with a = b, none twice, none in
\* both orders.
C6_OneRecordPerPair ==
    Reported =>
        LET H == Cardinality(DOMAIN counter)
        IN  /\ 2 * Cardinality(LastPairIndexes) = H * (H - 1)
            /\ \A i \in LastPairIndexes :
                  /\ output[i].kind = "pair"
                  /\ output[i].a # output[i].b
                  /\ {output[i].a, output[i].b} \subseteq DOMAIN counter
            /\ \A i \in LastPairIndexes : \A j \in LastPairIndexes \ {i} :
                  {output[i].a, output[i].b} # {output[j].a, output[j].b}
            /\ \A a \in DOMAIN counter : \A b \in DOMAIN counter \ {a} :
                  \E i \in LastPairIndexes : {output[i].a, output[i].b} = {a, b}

\* a group with three haplotypes, and so three records
C6_Witness ==
    /\ Reported
    /\ Cardinality(DOMAIN counter) = 3
    /\ Cardinality(LastPairIndexes) = 3

\* C7: when the pileup of a sample fails for the contig, an empty haplotype set is
\* recorded for the sample and the run goes on.
C7_LookupFailureTolerated ==
    pileup.fail =>
        /\ pc # "error"
        /\ Len(haplotype_set) >= 1
        /\ DOMAIN Last(haplotype_set) = {}

\* C8: the markers handed to the extractor for a group share one contig and have
\* strictly increasing positions, a position two rows share being counted once.
C8_MarkerSetStrictlyIncreasing ==
    pc = "samples" =>
        /\ nmarkers = Len(d)
        /\ \A i \in 1..Len(d) : d[i].seqid = seqid
        /\ \A i \in 1..Len(d) : \A j \in 1..Len(d) : i < j => d[i].pos < d[j].pos

\* a data row with fewer or more columns than the header line, or a position that
\* is not a number
Malformed(line) ==
    /\ line.kind = "row"
    /\ line.lead < 4 \/ Len(line.geno) # NCols \/ ~line.numeric

\* C9: a malformed data row, whether or not it passes the filter, ends the run with
\* an error before any group is processed or reported.
C9_MalformedRowAborts ==
    (branch \in {"missing", "lowhet", "append", "error"} /\ Malformed(row)) =>
        pc = "error" /\ output = <<>>

\* the contigs of data, in the order of data
RECURSIVE ContigsOf(_)
ContigsOf(s) ==
    IF s = <<>> THEN <<>>
    ELSE IF Len(s) >= 2 /\ s[1].seqid = s[2].seqid THEN ContigsOf(Tail(s))
    ELSE <<s[1].seqid>> \o ContigsOf(Tail(s))

MarkersOn(c) == Cardinality({i \in 1..Len(data) : data[i].seqid = c})

\* the i-th summary line of output, counted from 1
RECURSIVE NthSummary(_, _)
NthSummary(n, from) ==
    IF output[from].kind = "summary"
    THEN (IF n = 1 THEN from ELSE NthSummary(n - 1, from + 1))
    ELSE NthSummary(n, from + 1)

\* contigs come out in ascending order, each with one summary line that carries
\* its name and its counter, followed by its records
ReportLayout ==
    LET cs == ContigsOf(data)
    IN  /\ Cardinality(SummaryIndexes) = Len(cs)
        /\ \A k \in 1..Len(cs) :
              LET i == NthSummary(k, 1)
                  next == IF k < Len(cs) THEN NthSummary(k + 1, 1) ELSE Len(output) + 1
                  H == Cardinality(DOMAIN output[i].counter)
              IN  /\ output[i].seqid = cs[k]
                  /\ k < Len(cs) => ContigRank(cs[k]) < ContigRank(cs[k + 1])
                  /\ k = 1 => i = 1
                  /\ 2 * (next - i - 1) = H * (H - 1)
                  /\ \A j \in (i + 1)..(next - 1) :
                        /\ output[j].kind = "pair"
                        /\ {output[j].a, output[j].b} \subseteq DOMAIN output[i].counter

\* every summary line carries the number of markers of its contig
SummaryCarriesMarkerCount ==
    \A i \in SummaryIndexes :
        /\ "nmarkers" \in DOMAIN output[i]
        /\ output[i].nmarkers = MarkersOn(output[i].seqid)

\* C10: the report goes contig by contig in ascending order; each contig with a
\* marker has one summary line with its name, its marker count, its number of
\* haplotypes and their frequencies, then its records, all before the next contig.
C10_ReportPerRegionInOrder ==
    pc = "done" => ReportLayout /\ SummaryCarriesMarkerCount

\* C11: once a contig is reported, and before work on the next one begins, its
\* summary line and all its records have reached the sink, also when the contig
\* has fewer than two haplotypes and so no record.
C11_FlushedAfterEachRegion ==
    (pc = "samples" \/ (pc = "group" /\ Reported)) => flushed = Len(output)

====
